---------------------------- MODULE Spec2Model ----------------------------
(***************************************************************************)
(* Durable message queue of the Lark channel plugin (src/src/queue.ts),    *)
(* its ingestion endpoint (webhook handler) and its two consumer loops     *)
(* (dist/src/channel.js).                                                  *)
(*                                                                         *)
(* Time: Date.now() is modelled in whole seconds.  The source constants    *)
(* are milliseconds; calculateBackoff is computed in milliseconds exactly  *)
(* as in the source and converted with Secs() where it is added to the     *)
(* clock.  MESSAGE_TTL is kept in seconds (its millisecond value does not  *)
(* fit the model checker's integers).                                      *)
(***************************************************************************)
EXTENDS Integers, Sequences, FiniteSets, TLC

VARIABLES
    now,                \* Date.now(), in seconds
    inbound,            \* rows of table inbound_queue
    outbound,           \* rows of table outbound_queue
    sent,               \* rows of table sent_messages (SentRecord ledger)
    seq,                \* AUTOINCREMENT counters of the three tables
    proc,               \* "running": store open and consumers started; "crashed"
    inboundProcessing,  \* re-entrancy flag of the inbound consumer
    inSweep,            \* rows the running inbound sweep still has to handle
    outSweeps,          \* the outbound sweeps in flight (no re-entrancy guard)
    webhook,            \* per message id: position of the webhook request
    ret,                \* the last call made on the queue and what it returned
    events              \* failures, crashes and clock jumps that have happened so far

vars == <<now, inbound, outbound, sent, seq, proc, inboundProcessing,
          inSweep, outSweeps, webhook, ret, events>>

---------------------------------------------------------------------------
(* Program constants                                                       *)

MAX_RETRIES == 120
RETRY_BACKOFF_BASE_MS == 1000
RETRY_BACKOFF_MAX_MS == 120 * 60 * 1000
MESSAGE_TTL_S == 30 * 24 * 60 * 60
DEDUP_WINDOW_MS == 10 * 60 * 1000
STUCK_THRESHOLD_MS == 5 * 60 * 1000
INBOUND_BATCH == 3
OUTBOUND_BATCH == 5
SEND_MAX_RETRIES == 120
SEND_RETRY_BASE_MS == 1000
SEND_RETRY_MAX_MS == 120 * 60 * 1000

(* Bounds of the model                                                     *)

MaxEvents == 2          \* backend / transport failures, crashes and clock jumps
MaxRows == 2            \* rows ever inserted into one queue table
MaxOutSweeps == 2       \* outbound sweeps in flight at the same time

StartTime == 800000     \* the clock when the process starts

MessageIds == {"m1", "m2"}
\* a message text, with the two measures selectMessageType takes of it
Hi == [text |-> "hi", length |-> 2, lines |-> 1]
NoReply == [text |-> "NO_REPLY", length |-> 8, lines |-> 1]
Contents == {Hi, NoReply}
ChatIds == {"c1", "c2"}
LarkIds == {"om_1"}

NULL == -1              \* SQL NULL in an INTEGER column
NoText == ""            \* SQL NULL in a TEXT column

---------------------------------------------------------------------------
(* Helpers                                                                 *)

Min2(a, b) == IF a <= b THEN a ELSE b

Secs(ms) == ms \div 1000

Row(rows, id) == CHOOSE r \in rows : r.id = id

HasRow(rows, id) == \E r \in rows : r.id = id

hashContent(content) == <<"md5", content>>

\* faulty variant: the ceiling is not applied
calculateBackoffUncapped(retries) == RETRY_BACKOFF_BASE_MS * 2 ^ Min2(retries, 17)

calculateBackoff(retries) ==
    Min2(RETRY_BACKOFF_BASE_MS * 2 ^ Min2(retries, 17), RETRY_BACKOFF_MAX_MS)

\* faulty variant: the exhaustion test is off by one
hasExceededMaxRetriesStrict(retries) == retries > MAX_RETRIES

hasExceededMaxRetries(retries) == retries >= MAX_RETRIES

---------------------------------------------------------------------------
(* Queue engine: each operation maps the table(s) it touches to their new  *)
(* contents; t is the value Date.now() returns inside the call.            *)

\* faulty variant: only unresolved rows count as existing
stmtCheckInboundExistsUnresolved(rows, messageId) ==
    {r \in rows : r.message_id = messageId /\ r.status \in {"pending", "processing"}}

stmtCheckInboundExists(rows, messageId) ==
    {r \in rows : r.message_id = messageId}

\* INSERT OR IGNORE under the UNIQUE constraint on message_id
stmtEnqueueInbound(rows, lastId, messageId, t) ==
    IF \E r \in rows : r.message_id = messageId
    THEN rows
    ELSE rows \cup {[id |-> lastId + 1, message_id |-> messageId,
                     status |-> "pending", retries |-> 0, next_retry_at |-> t,
                     created_at |-> t, updated_at |-> t, completed_at |-> NULL,
                     response_text |-> NoText, last_error |-> NoText]}

enqueueInbound(rows, lastId, messageId, t) ==
    LET existing == stmtCheckInboundExists(rows, messageId)
        after == stmtEnqueueInbound(rows, lastId, messageId, t)
    IN  IF existing # {}
        THEN [rows |-> rows,
              result |-> [enqueued |-> FALSE, reason |-> "duplicate",
                          existing |-> (CHOOSE r \in existing : TRUE).status]]
        ELSE IF after # rows
        THEN [rows |-> after, result |-> [enqueued |-> TRUE, id |-> lastId + 1]]
        ELSE [rows |-> after,
              result |-> [enqueued |-> FALSE, reason |-> "insert_failed"]]

markInboundProcessing(rows, id, t) ==
    {IF r.id = id THEN [r EXCEPT !.status = "processing", !.updated_at = t]
     ELSE r : r \in rows}

\* every column but the key and the creation columns is written
stmtUpdateInbound(rows, status, t, retries, nextRetryAt, lastError, completedAt, responseText, id) ==
    {IF r.id = id
     THEN [r EXCEPT !.status = status, !.updated_at = t, !.retries = retries,
                    !.next_retry_at = nextRetryAt, !.last_error = lastError,
                    !.completed_at = completedAt, !.response_text = responseText]
     ELSE r : r \in rows}

\* faulty variant: completion writes retries 0 instead of the stored count
markInboundCompletedResetRetries(rows, id, responseText, t) ==
    stmtUpdateInbound(rows, "completed", t, 0, NULL, NoText, t, responseText, id)

markInboundCompleted(rows, id, responseText, t) ==
    LET retries == IF HasRow(rows, id) THEN Row(rows, id).retries ELSE 0
    IN  stmtUpdateInbound(rows, "completed", t, retries, NULL, NoText, t,
                          responseText, id)

\* faulty variant: the row is due again at once
markInboundRetryNoDelay(rows, id, errorMessage, t) ==
    LET retries == (IF HasRow(rows, id) THEN Row(rows, id).retries ELSE 0) + 1
    IN  IF hasExceededMaxRetries(retries)
        THEN stmtUpdateInbound(rows, "failed_permanent", t, retries, NULL,
                               errorMessage, NULL, NoText, id)
        ELSE stmtUpdateInbound(rows, "pending", t, retries, t,
                               errorMessage, NULL, NoText, id)

markInboundRetry(rows, id, errorMessage, t) ==
    LET retries == (IF HasRow(rows, id) THEN Row(rows, id).retries ELSE 0) + 1
    IN  IF hasExceededMaxRetries(retries)
        THEN stmtUpdateInbound(rows, "failed_permanent", t, retries, NULL,
                               errorMessage, NULL, NoText, id)
        ELSE stmtUpdateInbound(rows, "pending", t, retries,
                               t + Secs(calculateBackoff(retries)),
                               errorMessage, NULL, NoText, id)

\* faulty variant: rows being processed are selected as well
EligibleUnresolved(rows, t) ==
    {r \in rows : r.status \in {"pending", "processing"}
                  /\ (r.next_retry_at = NULL \/ r.next_retry_at <= t)}

\* WHERE status = 'pending' AND (next_retry_at IS NULL OR next_retry_at <= ?)
Eligible(rows, t) ==
    {r \in rows : r.status = "pending"
                  /\ (r.next_retry_at = NULL \/ r.next_retry_at <= t)}

\* faulty variant: ORDER BY is missing, any limit eligible rows may come back
stmtDequeueUnordered(rows, t, limit) ==
    LET el == Eligible(rows, t)
        k == Min2(limit, Cardinality(el))
    IN  {s \in [1..k -> el] : \A i, j \in 1..k : i < j => s[i] # s[j]}

\* ORDER BY created_at ASC LIMIT ?: every result the statement may give; the
\* order of rows with equal created_at is not fixed by the statement.
stmtDequeue(rows, t, limit) ==
    LET el == Eligible(rows, t)
        k == Min2(limit, Cardinality(el))
    IN  {s \in [1..k -> el] :
            /\ \A i, j \in 1..k : i < j =>
                   /\ s[i] # s[j]
                   /\ s[i].created_at <= s[j].created_at
            /\ \A r \in el : (\A i \in 1..k : s[i] # r) =>
                   \A i \in 1..k : s[i].created_at <= r.created_at}

dequeueInbound(rows, t, limit) == stmtDequeue(rows, t, limit)

dequeueOutbound(rows, t, limit) == stmtDequeue(rows, t, limit)

\* faulty variant: the chat is not part of the dedup key
stmtCheckOutboundDupeAnyChat(rows, hash, chatId, cutoff) ==
    {r \in rows : /\ r.content_hash = hash
                  /\ r.created_at > cutoff
                  /\ r.status \in {"pending", "processing"}}

stmtCheckOutboundDupe(rows, hash, chatId, cutoff) ==
    {r \in rows : /\ r.content_hash = hash
                  /\ r.chat_id = chatId
                  /\ r.created_at > cutoff
                  /\ r.status \in {"pending", "processing"}}

\* faulty variant: the whole ledger is consulted, not only the dedup window
stmtCheckSentDupeNoWindow(records, hash, chatId, cutoff) ==
    {r \in records : /\ r.content_hash = hash
                     /\ r.chat_id = chatId}

stmtCheckSentDupe(records, hash, chatId, cutoff) ==
    {r \in records : /\ r.content_hash = hash
                     /\ r.chat_id = chatId
                     /\ r.created_at > cutoff}

stmtEnqueueOutbound(rows, lastId, chatId, content, hash, t) ==
    rows \cup {[id |-> lastId + 1, chat_id |-> chatId, content |-> content,
                content_hash |-> hash, status |-> "pending", retries |-> 0,
                next_retry_at |-> t, created_at |-> t, updated_at |-> t,
                completed_at |-> NULL, lark_message_id |-> NoText,
                last_error |-> NoText]}

\* faulty variant: only the sent ledger is consulted
enqueueOutboundLedgerOnly(rows, records, lastId, chatId, content, t) ==
    LET hash == hashContent(content)
        dedupCutoff == t - Secs(DEDUP_WINDOW_MS)
    IN  IF stmtCheckSentDupe(records, hash, chatId, dedupCutoff) # {}
        THEN [rows |-> rows,
              result |-> [enqueued |-> FALSE, reason |-> "already_sent"]]
        ELSE [rows |-> stmtEnqueueOutbound(rows, lastId, chatId, content, hash, t),
              result |-> [enqueued |-> TRUE, id |-> lastId + 1]]

enqueueOutbound(rows, records, lastId, chatId, content, t) ==
    LET hash == hashContent(content)
        dedupCutoff == t - Secs(DEDUP_WINDOW_MS)
    IN  IF stmtCheckOutboundDupe(rows, hash, chatId, dedupCutoff) # {}
        THEN [rows |-> rows,
              result |-> [enqueued |-> FALSE, reason |-> "duplicate_pending"]]
        ELSE IF stmtCheckSentDupe(records, hash, chatId, dedupCutoff) # {}
        THEN [rows |-> rows,
              result |-> [enqueued |-> FALSE, reason |-> "already_sent"]]
        ELSE [rows |-> stmtEnqueueOutbound(rows, lastId, chatId, content, hash, t),
              result |-> [enqueued |-> TRUE, id |-> lastId + 1]]

markOutboundProcessing(rows, id, t) ==
    {IF r.id = id THEN [r EXCEPT !.status = "processing", !.updated_at = t]
     ELSE r : r \in rows}

stmtUpdateOutbound(rows, status, t, retries, nextRetryAt, lastError, completedAt, larkMessageId, id) ==
    {IF r.id = id
     THEN [r EXCEPT !.status = status, !.updated_at = t, !.retries = retries,
                    !.next_retry_at = nextRetryAt, !.last_error = lastError,
                    !.completed_at = completedAt,
                    !.lark_message_id = larkMessageId]
     ELSE r : r \in rows}

stmtRecordSent(records, lastId, hash, chatId, larkMessageId, t) ==
    records \cup {[id |-> lastId + 1, content_hash |-> hash, chat_id |-> chatId,
                   lark_message_id |-> larkMessageId, created_at |-> t]}

\* faulty variant: completion does not set completed_at
markOutboundCompletedNoTime(rows, records, lastSentId, id, larkMessageId, t) ==
    LET retries == IF HasRow(rows, id) THEN Row(rows, id).retries ELSE 0
    IN  [rows |-> stmtUpdateOutbound(rows, "completed", t, retries, NULL, NoText,
                                     NULL, larkMessageId, id),
         records |-> IF HasRow(rows, id)
                     THEN stmtRecordSent(records, lastSentId,
                                         Row(rows, id).content_hash,
                                         Row(rows, id).chat_id, larkMessageId, t)
                     ELSE records,
         lastSentId |-> IF HasRow(rows, id) THEN lastSentId + 1 ELSE lastSentId]

\* faulty variant: completion does not record the delivery in the ledger
markOutboundCompletedNoRecord(rows, records, lastSentId, id, larkMessageId, t) ==
    LET retries == IF HasRow(rows, id) THEN Row(rows, id).retries ELSE 0
    IN  [rows |-> stmtUpdateOutbound(rows, "completed", t, retries, NULL, NoText,
                                     t, larkMessageId, id),
         records |-> records,
         lastSentId |-> lastSentId]

\* the new contents of outbound_queue and of sent_messages
markOutboundCompleted(rows, records, lastSentId, id, larkMessageId, t) ==
    LET retries == IF HasRow(rows, id) THEN Row(rows, id).retries ELSE 0
    IN  [rows |-> stmtUpdateOutbound(rows, "completed", t, retries, NULL, NoText,
                                     t, larkMessageId, id),
         records |-> IF HasRow(rows, id)
                     THEN stmtRecordSent(records, lastSentId,
                                         Row(rows, id).content_hash,
                                         Row(rows, id).chat_id, larkMessageId, t)
                     ELSE records,
         lastSentId |-> IF HasRow(rows, id) THEN lastSentId + 1 ELSE lastSentId]

markOutboundRetry(rows, id, errorMessage, t) ==
    LET retries == (IF HasRow(rows, id) THEN Row(rows, id).retries ELSE 0) + 1
    IN  IF hasExceededMaxRetries(retries)
        THEN stmtUpdateOutbound(rows, "failed_permanent", t, retries, NULL,
                                errorMessage, NULL, NoText, id)
        ELSE stmtUpdateOutbound(rows, "pending", t, retries,
                                t + Secs(calculateBackoff(retries)),
                                errorMessage, NULL, NoText, id)

---------------------------------------------------------------------------
(* Recovery sweeper and TTL cleanup                                        *)

\* faulty variant: nothing is reset when the store is opened
resetStuckMessagesNone(rows, t) == rows

\* faulty variant: only rows processing for longer than the stuck threshold are reset
resetStuckMessagesOld(rows, t) ==
    {IF r.status = "processing" /\ r.updated_at < t - Secs(STUCK_THRESHOLD_MS)
     THEN [r EXCEPT !.status = "pending", !.updated_at = t]
     ELSE r : r \in rows}

\* UPDATE ... SET status = 'pending', retries = retries, updated_at = ?
\* WHERE status = 'processing'   (the same statement for both tables)
resetStuckMessages(rows, t) ==
    {IF r.status = "processing"
     THEN [r EXCEPT !.status = "pending", !.retries = r.retries, !.updated_at = t]
     ELSE r : r \in rows}

\* UPDATE ... SET status = 'pending', updated_at = ?
\* WHERE status = 'processing' AND updated_at < ?
recoverStuck(rows, t) ==
    LET fiveMinAgo == t - Secs(STUCK_THRESHOLD_MS)
    IN  {IF r.status = "processing" /\ r.updated_at < fiveMinAgo
         THEN [r EXCEPT !.status = "pending", !.updated_at = t]
         ELSE r : r \in rows}

\* faulty variant: old rows are deleted whatever their status
cleanupAnyStatus(rows, t) ==
    LET cutoff == t - MESSAGE_TTL_S
    IN  {r \in rows : ~(r.created_at < cutoff)}

\* DELETE FROM <queue> WHERE created_at < ? AND status = 'completed'
cleanup(rows, t) ==
    LET cutoff == t - MESSAGE_TTL_S
    IN  {r \in rows : ~(r.created_at < cutoff /\ r.status = "completed")}

\* faulty variant: the ledger is purged with the dedup window as its cutoff
cleanupSentWindow(records, t) ==
    LET cutoff == t - Secs(DEDUP_WINDOW_MS)
    IN  {r \in records : ~(r.created_at < cutoff)}

\* DELETE FROM sent_messages WHERE created_at < ?
cleanupSent(records, t) ==
    LET cutoff == t - MESSAGE_TTL_S
    IN  {r \in records : ~(r.created_at < cutoff)}

\* the path of the store file
dbPath == "~/.openclaw/lark-queue.db"

\* SELECT COUNT(CASE WHEN status = ... THEN 1 END) ... FROM <queue> WHERE created_at > ?
stmtCount(rows, cutoff) ==
    LET n(status) == Cardinality({r \in rows : r.created_at > cutoff /\ r.status = status})
    IN  [pending |-> n("pending"), processing |-> n("processing"),
         completed |-> n("completed"), failed |-> n("failed_permanent")]

\* faulty variant: the counts are taken over all rows
getStatsAllRows(rowsOut, rowsIn, t) ==
    [outbound |-> stmtCount(rowsOut, -1), inbound |-> stmtCount(rowsIn, -1),
     dbPath |-> dbPath]

getStats(rowsOut, rowsIn, t) ==
    LET cutoff == t - MESSAGE_TTL_S
    IN  [outbound |-> stmtCount(rowsOut, cutoff), inbound |-> stmtCount(rowsIn, cutoff),
         dbPath |-> dbPath]

\* new MessageQueue(dbPath) over the tables the file holds
constructor(rows, t) == cleanup(recoverStuck(resetStuckMessages(rows, t), t), t)

---------------------------------------------------------------------------
(* Outbound sender helpers                                                 *)

\* faulty variant: a text of exactly 100 characters still counts as short
selectMessageTypeUpTo100(content) ==
    IF content.length = 0 \/ content.text = "NO_REPLY" \/ content.text = "HEARTBEAT_OK"
    THEN "skip"
    ELSE IF content.length <= 100 /\ content.lines <= 2
    THEN "text"
    ELSE "interactive"

selectMessageType(content) ==
    IF content.length = 0 \/ content.text = "NO_REPLY" \/ content.text = "HEARTBEAT_OK"
    THEN "skip"
    ELSE IF content.length < 100 /\ content.lines <= 2
    THEN "text"
    ELSE "interactive"

calculateSendBackoff(attempt) ==
    Min2(SEND_RETRY_BASE_MS * 2 ^ Min2(attempt - 1, 17), SEND_RETRY_MAX_MS)

\* the error codes of the transport that no further attempt can cure
NON_RETRYABLE_CODES == {99991400, 99991401, 230001, 230002, 230006, 230014, 232009}

\* the error text of a failed transport call: without a code, or with the
\* code of 'bot not in chat'
sendError(nonRetryable) == IF nonRetryable THEN "code 230002" ELSE "error"

\* the first number of five or more digits in an error text, NULL if none
codeMatch(lastError) == IF lastError = "code 230002" THEN 230002 ELSE NULL

\* faulty variant: the loop does not look at error codes
hasNonRetryableCodeNever(lastError) == FALSE

hasNonRetryableCode(lastError) ==
    codeMatch(lastError) # NULL /\ codeMatch(lastError) \in NON_RETRYABLE_CODES

\* an outbound sweep slot: the rows dequeued and not yet finished (the head is
\* the row being sent), the number of the transport attempt, and the time the
\* sleep between two attempts ends (NULL while a transport call is in flight)
IdleSweep == [batch |-> <<>>, attempt |-> 0, wakeAt |-> NULL, lastError |-> NoText]

\* faulty variant: a skip is sent like any other content
outboundLoopNoSkip(db, batch, t) ==
    IF batch = <<>>
    THEN [db |-> db, sweep |-> IdleSweep]
    ELSE [db |-> [rows |-> markOutboundProcessing(db.rows, Head(batch).id, t),
                  records |-> db.records, lastSentId |-> db.lastSentId],
          sweep |-> [batch |-> batch, attempt |-> 1, wakeAt |-> NULL,
                     lastError |-> NoText]]

\* processOutboundQueue from the top of its for loop up to the next await that
\* leaves the turn: the row is marked processing; a skip is completed at once
\* and the loop goes on to the next row.  db = the tables, batch = rows left.
RECURSIVE outboundLoop(_, _, _)
outboundLoop(db, batch, t) ==
    IF batch = <<>>
    THEN [db |-> db, sweep |-> IdleSweep]
    ELSE LET msg == Head(batch)
             rows1 == markOutboundProcessing(db.rows, msg.id, t)
         IN  IF selectMessageType(msg.content) = "skip"
             THEN LET c == markOutboundCompleted(rows1, db.records, db.lastSentId,
                                                 msg.id, NoText, t)
                  IN  outboundLoop(c, Tail(batch), t)
             ELSE [db |-> [rows |-> rows1, records |-> db.records,
                           lastSentId |-> db.lastSentId],
                   sweep |-> [batch |-> batch, attempt |-> 1, wakeAt |-> NULL,
                              lastError |-> NoText]]

OutDb == [rows |-> outbound, records |-> sent, lastSentId |-> seq.sent]

---------------------------------------------------------------------------
(* Initial state: the process has constructed the queue over the store     *)
(* file and started the consumers.  The file is either new or left by an   *)
(* earlier run; the earlier run considered left one inbound and one        *)
(* outbound row that have failed MAX_RETRIES - 1 times and are due again.  *)

NoCall == [op |-> "none"]

WornInbound ==
    [id |-> 1, message_id |-> "m1", status |-> "pending",
     retries |-> MAX_RETRIES - 1, next_retry_at |-> StartTime - 1,
     created_at |-> 0, updated_at |-> StartTime - 1 - Secs(RETRY_BACKOFF_MAX_MS),
     completed_at |-> NULL, response_text |-> NoText, last_error |-> "error"]

WornOutbound ==
    [id |-> 1, chat_id |-> "c1", content |-> Hi, content_hash |-> hashContent(Hi),
     status |-> "pending", retries |-> MAX_RETRIES - 1,
     next_retry_at |-> StartTime - 1, created_at |-> 0,
     updated_at |-> StartTime - 1 - Secs(RETRY_BACKOFF_MAX_MS),
     completed_at |-> NULL, lark_message_id |-> NoText, last_error |-> "error"]

StoreFiles ==
    {[inbound |-> {}, outbound |-> {}, seq |-> [inbound |-> 0, outbound |-> 0, sent |-> 0]],
     [inbound |-> {WornInbound}, outbound |-> {WornOutbound},
      seq |-> [inbound |-> 1, outbound |-> 1, sent |-> 0]]}

InitWith(file) ==
    /\ now = StartTime
    /\ inbound = constructor(file.inbound, StartTime)
    /\ outbound = constructor(file.outbound, StartTime)
    /\ sent = cleanupSent({}, StartTime)
    /\ seq = file.seq
    /\ proc = "running"
    /\ inboundProcessing = FALSE
    /\ inSweep = <<>>
    /\ outSweeps = [k \in 1..MaxOutSweeps |-> IdleSweep]
    /\ webhook = [m \in MessageIds |-> "idle"]
    /\ ret = NoCall
    /\ events = 0

Init == \E file \in StoreFiles : InitWith(file)

---------------------------------------------------------------------------
(* Ingestion endpoint (WebhookHandler)                                     *)

\* handleRequest up to and including res.end('ok'): a message event for
\* message id m is acknowledged; handleMessageEvent has not stored it yet.
WebhookAck(m) ==
    /\ proc = "running"
    /\ webhook[m] = "idle"
    /\ webhook' = [webhook EXCEPT ![m] = "acked"]
    /\ ret' = NoCall
    /\ UNCHANGED <<now, inbound, outbound, sent, seq, proc, inboundProcessing,
                   inSweep, outSweeps, events>>

\* handleMessageEvent: the event passes the filters and is persisted
WebhookEnqueue(m) ==
    /\ proc = "running"
    /\ webhook[m] = "acked"
    /\ LET e == enqueueInbound(inbound, seq.inbound, m, now)
       IN  /\ e.result.enqueued => seq.inbound < MaxRows
           /\ inbound' = e.rows
           /\ seq' = IF e.result.enqueued
                     THEN [seq EXCEPT !.inbound = e.result.id] ELSE seq
           /\ ret' = [op |-> "enqueueInbound", messageId |-> m, result |-> e.result]
    /\ webhook' = [webhook EXCEPT ![m] = "idle"]
    /\ UNCHANGED <<now, outbound, sent, proc, inboundProcessing, inSweep,
                   outSweeps, events>>

---------------------------------------------------------------------------
(* Callers of enqueueOutbound (the queue is exported to the host)          *)

EnqueueOutbound(content, chatId) ==
    /\ proc = "running"
    /\ LET e == enqueueOutbound(outbound, sent, seq.outbound, chatId, content, now)
       IN  /\ e.result.enqueued => seq.outbound < MaxRows
           /\ outbound' = e.rows
           /\ seq' = IF e.result.enqueued
                     THEN [seq EXCEPT !.outbound = e.result.id] ELSE seq
           /\ ret' = [op |-> "enqueueOutbound", content |-> content,
                      chatId |-> chatId, result |-> e.result]
    /\ UNCHANGED <<now, inbound, sent, proc, inboundProcessing, inSweep,
                   outSweeps, webhook, events>>

---------------------------------------------------------------------------
(* Inbound consumer                                                        *)

\* the attachments_json column of a row: written by enqueueInbound as
\* JSON.stringify of the attachments of the event, or left by another writer
\* in a form that is no JSON
attachments_json(msg) ==
    IF msg.message_id = "m2" THEN "[{\"type\":\"image\"" ELSE "[{\"type\":\"image\"}]"

\* faulty variant: JSON.parse is not guarded, the exception leaves the function
parseAttachmentsForAgentUnguarded(attachmentsJson) ==
    IF attachmentsJson = NoText THEN [threw |-> FALSE, list |-> <<>>]
    ELSE IF attachmentsJson = "[{\"type\":\"image\"}]"
    THEN [threw |-> FALSE, list |-> <<"image">>]
    ELSE [threw |-> TRUE, list |-> <<>>]

\* the attachments handed to the backend, and whether the function threw: an
\* absent payload and one JSON.parse rejects both give the empty list
parseAttachmentsForAgent(attachmentsJson) ==
    IF attachmentsJson = NoText THEN [threw |-> FALSE, list |-> <<>>]
    ELSE IF attachmentsJson = "[{\"type\":\"image\"}]"
    THEN [threw |-> FALSE, list |-> <<"image">>]
    ELSE [threw |-> FALSE, list |-> <<>>]

\* faulty variant: the key names the attempt, not the message
finalizeInboundContextPerAttempt(msg) ==
    [Provider |-> "lark", MessageSid |-> <<msg.message_id, msg.retries>>]

\* the context of a dispatch, as far as it identifies the submission: the
\* backend is handed the message id of the chat platform as MessageSid
finalizeInboundContext(msg) ==
    [Provider |-> "lark", MessageSid |-> <<msg.message_id>>]

\* faulty variant: a trigger starts a sweep whether or not one is running
InboundSweepStartUnguarded ==
    /\ proc = "running"
    /\ \E messages \in dequeueInbound(inbound, now, INBOUND_BATCH) :
          /\ messages # <<>>
          /\ inboundProcessing' = TRUE
          /\ inSweep' = messages
          /\ inbound' = markInboundProcessing(inbound, Head(messages).id, now)
    /\ ret' = NoCall
    /\ UNCHANGED <<now, outbound, sent, seq, proc, outSweeps, webhook, events>>

\* faulty variant: the sweep marks every row of the batch processing when it
\* dequeues them
InboundSweepStartMarksBatch ==
    /\ proc = "running"
    /\ ~inboundProcessing
    /\ \E messages \in dequeueInbound(inbound, now, INBOUND_BATCH) :
          /\ messages # <<>>
          /\ inboundProcessing' = TRUE
          /\ inSweep' = messages
          /\ inbound' = {IF \E i \in DOMAIN messages : messages[i].id = r.id
                         THEN [r EXCEPT !.status = "processing", !.updated_at = now]
                         ELSE r : r \in inbound}
    /\ ret' = NoCall
    /\ UNCHANGED <<now, outbound, sent, seq, proc, outSweeps, webhook, events>>

\* processInboundQueue is triggered (timer or enqueue event) while no sweep
\* runs: the flag is set, the batch is dequeued and its first row is marked
\* processing and dispatched.  A trigger that finds nothing due changes nothing.
InboundSweepStart ==
    /\ proc = "running"
    /\ ~inboundProcessing
    /\ \E messages \in dequeueInbound(inbound, now, INBOUND_BATCH) :
          /\ messages # <<>>
          /\ inboundProcessing' = TRUE
          /\ inSweep' = messages
          /\ inbound' = markInboundProcessing(inbound, Head(messages).id, now)
    /\ ret' = NoCall
    /\ UNCHANGED <<now, outbound, sent, seq, proc, outSweeps, webhook, events>>

\* faulty variant: a failed dispatch is only logged, the row is not written
InboundDispatchDoneFailureDropped(ok) ==
    /\ proc = "running"
    /\ inSweep # <<>>
    /\ ~ok => events < MaxEvents
    /\ LET msg == Head(inSweep)
           rest == Tail(inSweep)
           after == IF ok THEN markInboundCompleted(inbound, msg.id, "delivered", now)
                    ELSE inbound
       IN  IF rest = <<>>
           THEN /\ inbound' = after
                /\ inSweep' = <<>>
                /\ inboundProcessing' = FALSE
           ELSE /\ inbound' = markInboundProcessing(after, Head(rest).id, now)
                /\ inSweep' = rest
                /\ UNCHANGED inboundProcessing
    /\ events' = IF ok THEN events ELSE events + 1
    /\ ret' = NoCall
    /\ UNCHANGED <<now, outbound, sent, seq, proc, outSweeps, webhook>>

\* the dispatch of the row at the head of the batch ends: it returned (ok) or
\* it raised or timed out; the loop then marks the next row processing and
\* dispatches it, or the sweep ends and the flag is cleared.
InboundDispatchDone(ok) ==
    /\ proc = "running"
    /\ inSweep # <<>>
    /\ ~ok => events < MaxEvents
    /\ LET msg == Head(inSweep)
           rest == Tail(inSweep)
           allAttachments == parseAttachmentsForAgent(attachments_json(msg))
           after == IF ok /\ ~allAttachments.threw
                    THEN markInboundCompleted(inbound, msg.id, "delivered", now)
                    ELSE markInboundRetry(inbound, msg.id, "error", now)
       IN  IF rest = <<>>
           THEN /\ inbound' = after
                /\ inSweep' = <<>>
                /\ inboundProcessing' = FALSE
           ELSE /\ inbound' = markInboundProcessing(after, Head(rest).id, now)
                /\ inSweep' = rest
                /\ UNCHANGED inboundProcessing
    /\ events' = IF ok THEN events ELSE events + 1
    /\ ret' = IF ret.op = "deliver"
              THEN [op |-> "dispatch", id |-> Head(inSweep).id, reply |-> ret.result,
                    since |-> Row(inbound, Head(inSweep).id).updated_at]
              ELSE NoCall
    /\ UNCHANGED <<now, outbound, sent, seq, proc, outSweeps, webhook>>

\* the deliver callback of the dispatch in progress is called with a reply:
\* it awaits sendToLark and drops what sendToLark returns, a message id, a
\* skip or an error (here a non-retryable one, returned at once); ret keeps
\* whether a reply of this dispatch ended in an error.
DeliverReply(result) ==
    /\ proc = "running"
    /\ inSweep # <<>>
    /\ result = "error" => events < MaxEvents
    /\ events' = IF result = "error" THEN events + 1 ELSE events
    /\ ret' = [op |-> "deliver",
               result |-> IF ret.op = "deliver" /\ ret.result = "error"
                          THEN "error" ELSE result]
    /\ UNCHANGED <<now, inbound, outbound, sent, seq, proc, inboundProcessing,
                   inSweep, outSweeps, webhook>>

---------------------------------------------------------------------------
(* Outbound sender                                                         *)

SetOutDb(db) ==
    /\ outbound' = db.rows
    /\ sent' = db.records
    /\ seq' = [seq EXCEPT !.sent = db.lastSentId]

\* the interval timer calls processOutboundQueue; earlier sweeps may still be
\* awaiting a send.  A call that dequeues nothing changes nothing.
OutboundSweepStart(k) ==
    /\ proc = "running"
    /\ outSweeps[k] = IdleSweep
    /\ \A j \in 1..(k - 1) : outSweeps[j] # IdleSweep
    /\ \E messages \in dequeueOutbound(outbound, now, OUTBOUND_BATCH) :
          /\ messages # <<>>
          /\ LET r == outboundLoop(OutDb, messages, now)
             IN  /\ SetOutDb(r.db)
                 /\ outSweeps' = [outSweeps EXCEPT ![k] = r.sweep]
    /\ ret' = NoCall
    /\ UNCHANGED <<now, inbound, proc, inboundProcessing, inSweep, webhook, events>>

\* the transport call of sweep k returns success with a message id
OutboundSendOk(k, larkMessageId) ==
    /\ proc = "running"
    /\ outSweeps[k].batch # <<>>
    /\ outSweeps[k].wakeAt = NULL
    /\ LET msg == Head(outSweeps[k].batch)
           c == markOutboundCompleted(outbound, sent, seq.sent, msg.id,
                                      larkMessageId, now)
           r == outboundLoop(c, Tail(outSweeps[k].batch), now)
       IN  /\ SetOutDb(r.db)
           /\ outSweeps' = [outSweeps EXCEPT ![k] = r.sweep]
    /\ ret' = NoCall
    /\ UNCHANGED <<now, inbound, proc, inboundProcessing, inSweep, webhook, events>>

\* the transport call of sweep k fails (error result or exception); with a
\* non-retryable code, or on the last attempt, sendToLarkWithRetry returns the
\* error and the row goes to markOutboundRetry; otherwise the sweep sleeps.
SendFailed(k, nonRetryable) ==
    /\ proc = "running"
    /\ outSweeps[k].batch # <<>>
    /\ outSweeps[k].wakeAt = NULL
    /\ LET sw == outSweeps[k]
           msg == Head(sw.batch)
           lastError == sendError(nonRetryable)
       IN  IF hasNonRetryableCode(lastError) \/ ~(sw.attempt < SEND_MAX_RETRIES)
           THEN LET rows1 == markOutboundRetry(outbound, msg.id, lastError, now)
                    r == outboundLoop([rows |-> rows1, records |-> sent,
                                       lastSentId |-> seq.sent], Tail(sw.batch), now)
                IN  /\ SetOutDb(r.db)
                    /\ outSweeps' = [outSweeps EXCEPT ![k] = r.sweep]
                    /\ ret' = [op |-> "sendToLarkWithRetry", id |-> msg.id,
                               attempts |-> sw.attempt, error |-> lastError]
           ELSE /\ outSweeps' = [outSweeps EXCEPT
                                    ![k].wakeAt = now + Secs(calculateSendBackoff(sw.attempt)),
                                    ![k].lastError = lastError]
                /\ ret' = NoCall
                /\ UNCHANGED <<outbound, sent, seq>>
    /\ UNCHANGED <<now, inbound, proc, inboundProcessing, inSweep, webhook>>

\* faulty variant: the error of a row leaves the for loop, the rows behind it
\* in the batch are not attempted in this sweep
OutboundSendFailAbortsBatch(k, nonRetryable) ==
    /\ events < MaxEvents
    /\ proc = "running"
    /\ outSweeps[k].batch # <<>>
    /\ outSweeps[k].wakeAt = NULL
    /\ LET sw == outSweeps[k]
           msg == Head(sw.batch)
       IN  IF nonRetryable \/ ~(sw.attempt < SEND_MAX_RETRIES)
           THEN /\ outbound' = markOutboundRetry(outbound, msg.id, "error", now)
                /\ outSweeps' = [outSweeps EXCEPT ![k] = IdleSweep]
                /\ ret' = [op |-> "sendToLarkWithRetry", id |-> msg.id,
                           attempts |-> sw.attempt]
           ELSE /\ outSweeps' = [outSweeps EXCEPT ![k].wakeAt =
                                    now + Secs(calculateSendBackoff(sw.attempt))]
                /\ ret' = NoCall
                /\ UNCHANGED outbound
    /\ events' = events + 1
    /\ UNCHANGED <<now, inbound, sent, seq, proc, inboundProcessing, inSweep, webhook>>

\* one of the few transport failures of a run
OutboundSendFail(k, nonRetryable) ==
    /\ events < MaxEvents
    /\ SendFailed(k, nonRetryable)
    /\ events' = events + 1

\* faulty variant: the loop has no attempt limit, every failure sleeps and
\* the call is made again
OutboundSendDownUnbounded(k) ==
    /\ proc = "running"
    /\ outSweeps[k].batch # <<>>
    /\ outSweeps[k].wakeAt = NULL
    /\ outSweeps' = [outSweeps EXCEPT ![k].wakeAt =
                         now + Secs(calculateSendBackoff(outSweeps[k].attempt))]
    /\ ret' = NoCall
    /\ UNCHANGED <<now, inbound, outbound, sent, seq, proc, inboundProcessing,
                   inSweep, webhook, events>>

\* the transport is down: every attempt fails with a retryable error
OutboundSendDown(k) ==
    /\ SendFailed(k, FALSE)
    /\ UNCHANGED events

\* the sleep between two attempts ends and the next transport call is made
OutboundWake(k) ==
    /\ proc = "running"
    /\ outSweeps[k].batch # <<>>
    /\ outSweeps[k].wakeAt # NULL
    /\ outSweeps[k].wakeAt <= now
    /\ outSweeps' = [outSweeps EXCEPT ![k].attempt = @ + 1, ![k].wakeAt = NULL]
    /\ ret' = NoCall
    /\ UNCHANGED <<now, inbound, outbound, sent, seq, proc, inboundProcessing,
                   inSweep, webhook, events>>

---------------------------------------------------------------------------
(* Maintenance, the clock and the process                                  *)

\* the hourly timer set by the constructor
CleanupTimer ==
    /\ proc = "running"
    /\ inbound' = cleanup(inbound, now)
    /\ outbound' = cleanup(outbound, now)
    /\ sent' = cleanupSent(sent, now)
    /\ ret' = [op |-> "cleanup",
               deleted |-> Cardinality(inbound \ inbound')
                           + Cardinality(outbound \ outbound')]
    /\ <<inbound', outbound', sent'>> # <<inbound, outbound, sent>>
    /\ UNCHANGED <<now, seq, proc, inboundProcessing, inSweep, outSweeps,
                   webhook, events>>

\* the times something in the system is waiting for
Deadlines ==
    {r.next_retry_at : r \in {x \in inbound \cup outbound : x.status = "pending"}}
    \cup {outSweeps[k].wakeAt : k \in 1..MaxOutSweeps}

\* time passes until the next deadline
Wait ==
    /\ \E d \in Deadlines :
          /\ d > now
          /\ \A e \in Deadlines : e > now => d <= e
          /\ now' = d
    /\ ret' = NoCall
    /\ UNCHANGED <<inbound, outbound, sent, seq, proc, inboundProcessing,
                   inSweep, outSweeps, webhook, events>>

Jumps == {Secs(DEDUP_WINDOW_MS), MESSAGE_TTL_S}

\* time passes by a dedup window or by a TTL; an inbound dispatch does not last
\* that long, its 5 minute timeout ends it
Tick(d) ==
    /\ events < MaxEvents
    /\ inSweep = <<>>
    /\ now' = now + d
    /\ events' = events + 1
    /\ ret' = NoCall
    /\ UNCHANGED <<inbound, outbound, sent, seq, proc, inboundProcessing,
                   inSweep, outSweeps, webhook>>

\* the process dies: everything in memory is gone, the store file stays
Crash ==
    /\ proc = "running"
    /\ events < MaxEvents
    /\ proc' = "crashed"
    /\ inboundProcessing' = FALSE
    /\ inSweep' = <<>>
    /\ outSweeps' = [k \in 1..MaxOutSweeps |-> IdleSweep]
    /\ webhook' = [m \in MessageIds |-> "idle"]
    /\ events' = events + 1
    /\ ret' = NoCall
    /\ UNCHANGED <<now, inbound, outbound, sent, seq>>

\* the process is started again: new MessageQueue(), then startConsumers
Restart ==
    /\ proc = "crashed"
    /\ proc' = "running"
    /\ inbound' = constructor(inbound, now)
    /\ outbound' = constructor(outbound, now)
    /\ sent' = cleanupSent(sent, now)
    /\ ret' = [op |-> "open",
               reset |-> Cardinality({r \in inbound \cup outbound :
                                         r.status = "processing"})]
    /\ UNCHANGED <<now, seq, inboundProcessing, inSweep, outSweeps, webhook, events>>

\* the steps of the inbound pipeline for message ids ms
InboundSteps(ms) ==
    \/ \E m \in ms : WebhookAck(m)
    \/ \E m \in ms : WebhookEnqueue(m)
    \/ InboundSweepStart
    \/ \E ok \in BOOLEAN : InboundDispatchDone(ok)

\* the steps of the outbound pipeline for contents cs sent to chats chs, with
\* the timer firing while fewer than Cardinality(slots) sweeps are in flight
OutboundSteps(cs, chs, slots) ==
    \/ \E c \in cs, ch \in chs : EnqueueOutbound(c, ch)
    \/ \E k \in slots : OutboundSweepStart(k)
    \/ \E k \in slots, id \in LarkIds : OutboundSendOk(k, id)
    \/ \E k \in slots, nr \in BOOLEAN : OutboundSendFail(k, nr)
    \/ \E k \in slots : OutboundWake(k)

\* the clock: time passes to the next deadline, or by one of the periods ds
ClockSteps(ds) ==
    \/ Wait
    \/ \E d \in ds : Tick(d)

\* the process dies and is started again
ProcessSteps ==
    \/ Crash
    \/ Restart

EnvSteps ==
    \/ CleanupTimer
    \/ ClockSteps(Jumps)
    \/ ProcessSteps

\* the whole program, one message id and one reply, seen on the scale of the
\* retention period: the clock advances by whole TTLs
Next ==
    \/ InboundSteps({"m1"})
    \/ OutboundSteps({Hi}, {"c1"}, {1})
    \/ CleanupTimer
    \/ Tick(MESSAGE_TTL_S)
    \/ ProcessSteps

Spec == Init /\ [][Next]_vars

\* the inbound pipeline alone
NextIn == InboundSteps(MessageIds) \/ EnvSteps

SpecIn == Init /\ [][NextIn]_vars

\* the outbound pipeline alone, the timer never firing during a sweep, with
\* dedup windows passing
NextOut ==
    \/ OutboundSteps({Hi}, ChatIds, {1})
    \/ ClockSteps({Secs(DEDUP_WINDOW_MS)})
    \/ ProcessSteps

SpecOut == Init /\ [][NextOut]_vars

\* the outbound pipeline alone, the 5 s timer firing during a sweep
NextOverlap == OutboundSteps({Hi}, ChatIds, 1..MaxOutSweeps) \/ EnvSteps

SpecOverlap == Init /\ [][NextOverlap]_vars

\* the whole program under fair scheduling: a crashed process is started
\* again, timers fire, calls to the backend and to the transport return, and
\* time passes
NextLive ==
    \/ InboundSteps({"m1"})
    \/ OutboundSteps({Hi}, {"c1"}, {1})
    \/ Wait
    \/ Crash
    \/ Restart

Fairness ==
    /\ WF_vars(Restart)
    /\ WF_vars(Wait)
    /\ WF_vars(InboundSweepStart)
    /\ WF_vars(\E ok \in BOOLEAN : InboundDispatchDone(ok))
    /\ WF_vars(OutboundSweepStart(1))
    /\ WF_vars(\/ \E id \in LarkIds : OutboundSendOk(1, id)
               \/ \E nr \in BOOLEAN : OutboundSendFail(1, nr))
    /\ WF_vars(OutboundWake(1))

SpecLive == Init /\ [][NextLive]_vars /\ Fairness

---------------------------------------------------------------------------
(* A client of the queue that calls markRetry directly, as the tests do    *)

\* the number of consecutive markRetry calls made on row id, counted from the
\* call that found the row fresh; 0 when the calls did not start on a fresh row
Streak(op, id, row) ==
    IF ret.op = op /\ ret.id = id /\ ret.streak > 0 THEN ret.streak + 1
    ELSE IF row.retries = 0 /\ row.status = "pending" THEN 1
    ELSE 0

CallMarkInboundRetry(id) ==
    /\ proc = "running"
    /\ HasRow(inbound, id)
    /\ Row(inbound, id).retries < MAX_RETRIES
    /\ inbound' = markInboundRetry(inbound, id, "error", now)
    /\ ret' = [op |-> "markInboundRetry", id |-> id, at |-> now,
               streak |-> Streak("markInboundRetry", id, Row(inbound, id))]
    /\ UNCHANGED <<now, outbound, sent, seq, proc, inboundProcessing, inSweep,
                   outSweeps, webhook, events>>

CallMarkOutboundRetry(id) ==
    /\ proc = "running"
    /\ HasRow(outbound, id)
    /\ Row(outbound, id).retries < MAX_RETRIES
    /\ outbound' = markOutboundRetry(outbound, id, "error", now)
    /\ ret' = [op |-> "markOutboundRetry", id |-> id, at |-> now,
               streak |-> Streak("markOutboundRetry", id, Row(outbound, id))]
    /\ UNCHANGED <<now, inbound, sent, seq, proc, inboundProcessing, inSweep,
                   outSweeps, webhook, events>>

NextRetry ==
    \/ WebhookAck("m1")
    \/ WebhookEnqueue("m1")
    \/ EnqueueOutbound(Hi, "c1")
    \/ \E id \in 1..MaxRows : CallMarkInboundRetry(id)
    \/ \E id \in 1..MaxRows : CallMarkOutboundRetry(id)

SpecRetry == Init /\ [][NextRetry]_vars

---------------------------------------------------------------------------
(* Both consumers working on batches of more than one row                  *)

\* the store left by the earlier run holds a row of m1 and a reply to c1; the
\* rows that join them in a batch are m2 and a second reply to c1
NextBatch ==
    \/ InboundSteps({"m2"})
    \/ OutboundSteps({Hi}, {"c1"}, {1})
    \/ Wait

SpecBatch == Init /\ [][NextBatch]_vars

---------------------------------------------------------------------------
(* One reply and a transport that may be down for as long as it takes      *)

NextSend ==
    \/ outbound = {} /\ EnqueueOutbound(Hi, "c1")
    \/ OutboundSweepStart(1)
    \/ \E id \in LarkIds : OutboundSendOk(1, id)
    \/ OutboundSendDown(1)
    \/ OutboundWake(1)
    \/ Wait

SpecSend == Init /\ [][NextSend]_vars

---------------------------------------------------------------------------
(* The inbound consumer with the replies its dispatches deliver            *)

NextReply ==
    \/ InboundSteps(MessageIds)
    \/ \E result \in {"sent", "skipped", "error"} : DeliverReply(result)
    \/ Wait

SpecReply == Init /\ [][NextReply]_vars

---------------------------------------------------------------------------
(* The queue's read operations called while the consumers run              *)

\* faulty variant: dequeue claims the rows it returns
CallDequeueInboundClaiming(limit) ==
    /\ proc = "running"
    /\ \E s \in dequeueInbound(inbound, now, limit) :
          /\ ret' = [op |-> "dequeueInbound", limit |-> limit, result |-> s]
          /\ inbound' = {IF r \in {s[i] : i \in DOMAIN s}
                         THEN [r EXCEPT !.status = "processing", !.updated_at = now]
                         ELSE r : r \in inbound}
    /\ UNCHANGED <<now, outbound, sent, seq, proc, inboundProcessing, inSweep,
                   outSweeps, webhook, events>>

\* dequeueInbound(limit): the statement is a SELECT, the tables are as before.
\* The statement does not fix the order of rows with equal created_at, but on
\* an unchanged table it gives the same answer every time.
CallDequeueInbound(limit) ==
    /\ proc = "running"
    /\ ret' = [op |-> "dequeueInbound", limit |-> limit,
               result |-> CHOOSE s \in dequeueInbound(inbound, now, limit) : TRUE]
    /\ UNCHANGED <<now, inbound, outbound, sent, seq, proc, inboundProcessing,
                   inSweep, outSweeps, webhook, events>>

CallDequeueOutbound(limit) ==
    /\ proc = "running"
    /\ ret' = [op |-> "dequeueOutbound", limit |-> limit,
               result |-> CHOOSE s \in dequeueOutbound(outbound, now, limit) : TRUE]
    /\ UNCHANGED <<now, inbound, outbound, sent, seq, proc, inboundProcessing,
                   inSweep, outSweeps, webhook, events>>

NextQuery ==
    \/ InboundSteps({"m1"})
    \/ OutboundSteps({Hi}, {"c1"}, {1})
    \/ Wait
    \/ \E limit \in {1, INBOUND_BATCH} : CallDequeueInbound(limit)
    \/ \E limit \in {1, OUTBOUND_BATCH} : CallDequeueOutbound(limit)

SpecQuery == Init /\ [][NextQuery]_vars

---------------------------------------------------------------------------
(* The stats query called on a queue whose rows are in every status        *)

CallGetStats ==
    /\ proc = "running"
    /\ ret' = [op |-> "getStats", stats |-> getStats(outbound, inbound, now)]
    /\ UNCHANGED <<now, inbound, outbound, sent, seq, proc, inboundProcessing,
                   inSweep, outSweeps, webhook, events>>

NextStats ==
    \/ InboundSteps({"m1"})
    \/ EnqueueOutbound(Hi, "c1")
    \/ \E id \in 1..MaxRows : now = StartTime /\ CallMarkInboundRetry(id)
    \/ Tick(MESSAGE_TTL_S)
    \/ CallGetStats

SpecStats == Init /\ [][NextStats]_vars

---------------------------------------------------------------------------
(* The message-type classifier applied to texts of every kind              *)

\* texts at the edges of the classifier: absent or empty, the sentinels,
\* a sentinel with a trailing blank, 99 and 100 characters, 2 and 3 lines,
\* and a long text of several paragraphs
Texts ==
    {[text |-> "", length |-> 0, lines |-> 1],
     NoReply,
     [text |-> "HEARTBEAT_OK", length |-> 12, lines |-> 1],
     [text |-> "NO_REPLY ", length |-> 9, lines |-> 1],
     Hi,
     [text |-> "99 characters", length |-> 99, lines |-> 1],
     [text |-> "100 characters", length |-> 100, lines |-> 1],
     [text |-> "Line 1\nLine 2", length |-> 13, lines |-> 2],
     [text |-> "Line 1\nLine 2\nLine 3", length |-> 20, lines |-> 3],
     [text |-> "5 paragraphs", length |-> 260, lines |-> 6]}

CallSelectMessageType(text) ==
    /\ ret' = [op |-> "selectMessageType", text |-> text,
               result |-> selectMessageType(text)]
    /\ UNCHANGED <<now, inbound, outbound, sent, seq, proc, inboundProcessing,
                   inSweep, outSweeps, webhook, events>>

NextClassify ==
    \/ \E text \in Texts : EnqueueOutbound(text, "c1")
    \/ OutboundSweepStart(1)
    \/ \E id \in LarkIds : OutboundSendOk(1, id)
    \/ \E text \in Texts : CallSelectMessageType(text)

SpecClassify == Init /\ [][NextClassify]_vars

\* the outbound pipeline with replies and skip markers, the transport failing
\* now and then
NextSkip ==
    \/ OutboundSteps({Hi, NoReply}, {"c1"}, {1})
    \/ Wait

SpecSkip == Init /\ [][NextSkip]_vars

\* the outbound pipeline over a store left by an earlier run with two replies
\* due: an older one to c2 that was never attempted, and behind it the reply
\* to c1 that has failed MAX_RETRIES - 1 times; the 5 s timer fires during a
\* sweep
BacklogFile ==
    [inbound |-> {},
     outbound |-> {[WornOutbound EXCEPT !.id = 2, !.created_at = 1],
                   [WornOutbound EXCEPT !.chat_id = "c2", !.retries = 0,
                                        !.last_error = NoText]},
     seq |-> [inbound |-> 0, outbound |-> 2, sent |-> 0]]

NextBacklog ==
    \/ \E k \in 1..MaxOutSweeps : OutboundSweepStart(k)
    \/ \E k \in 1..MaxOutSweeps, id \in LarkIds : OutboundSendOk(k, id)
    \/ \E k \in 1..MaxOutSweeps, nr \in BOOLEAN : OutboundSendFail(k, nr)
    \/ \E k \in 1..MaxOutSweeps : OutboundWake(k)
    \/ Wait

SpecBacklog == InitWith(BacklogFile) /\ [][NextBacklog]_vars

---------------------------------------------------------------------------
(* The inbound consumer over a store whose operations can throw            *)

\* faulty variant: the flag is cleared only on the normal return of a sweep
InboundQueueThrowNoFinally(ok) ==
    /\ proc = "running"
    /\ inSweep # <<>>
    /\ Tail(inSweep) # <<>>
    /\ events < MaxEvents
    /\ inbound' = IF ok THEN markInboundCompleted(inbound, Head(inSweep).id, "delivered", now)
                  ELSE markInboundRetry(inbound, Head(inSweep).id, "error", now)
    /\ inSweep' = <<>>
    /\ events' = events + 1
    /\ ret' = [op |-> "processInboundQueue", threw |-> TRUE, left |-> Tail(inSweep)]
    /\ UNCHANGED <<now, outbound, sent, seq, proc, inboundProcessing, outSweeps, webhook>>

\* the attempt on the head of the batch is over and markInboundProcessing of
\* the next row throws (the store is busy): the exception is outside the
\* try of the loop body, it leaves processInboundQueueInner, and the finally
\* of processInboundQueue clears the flag; the rest of the batch stays pending
InboundQueueThrow(ok) ==
    /\ proc = "running"
    /\ inSweep # <<>>
    /\ Tail(inSweep) # <<>>
    /\ events < MaxEvents
    /\ inbound' = IF ok THEN markInboundCompleted(inbound, Head(inSweep).id, "delivered", now)
                  ELSE markInboundRetry(inbound, Head(inSweep).id, "error", now)
    /\ inSweep' = <<>>
    /\ inboundProcessing' = FALSE
    /\ events' = events + 1
    /\ ret' = [op |-> "processInboundQueue", threw |-> TRUE, left |-> Tail(inSweep)]
    /\ UNCHANGED <<now, outbound, sent, seq, proc, outSweeps, webhook>>

NextFlag ==
    \/ InboundSteps(MessageIds)
    \/ \E ok \in BOOLEAN : InboundQueueThrow(ok)
    \/ Wait

\* triggers keep coming (the 5 s timer), dispatches return or time out, and
\* time passes
FlagFairness ==
    /\ WF_vars(InboundSweepStart)
    /\ WF_vars(\E ok \in BOOLEAN : InboundDispatchDone(ok))
    /\ WF_vars(Wait)

SpecFlag == Init /\ [][NextFlag]_vars /\ FlagFairness

---------------------------------------------------------------------------
(* Shutdown: the abort handler stops the consumers and closes the queue    *)

\* the abort handler: webhook.stop(), stopConsumers() (flags cleared, timers
\* and listener removed), closeQueue().  Sweeps that are awaiting the backend
\* or the transport are not cancelled.
Abort ==
    /\ proc = "running"
    /\ proc' = "stopped"
    /\ webhook' = [m \in MessageIds |-> "idle"]
    /\ ret' = [op |-> "close"]
    /\ UNCHANGED <<now, inbound, outbound, sent, seq, inboundProcessing, inSweep,
                   outSweeps, events>>

\* the dispatch an inbound sweep was awaiting returns after the abort: the
\* loop body goes on to markInboundCompleted, or markInboundRetry, on the
\* queue it holds; the statement throws on the closed database, the exception
\* leaves the sweep and the finally clears the flag
InboundDispatchDoneClosed(ok) ==
    /\ proc = "stopped"
    /\ inSweep # <<>>
    /\ inSweep' = <<>>
    /\ inboundProcessing' = FALSE
    /\ ret' = [op |-> IF ok THEN "markInboundCompleted" ELSE "markInboundRetry",
               id |-> Head(inSweep).id, store |-> "closed"]
    /\ UNCHANGED <<now, inbound, outbound, sent, seq, proc, outSweeps, webhook, events>>

\* the transport call an outbound sweep was awaiting returns after the abort,
\* with a message id or with an error that ends the send loop
OutboundSendDoneClosed(k, ok) ==
    /\ proc = "stopped"
    /\ outSweeps[k].batch # <<>>
    /\ outSweeps[k].wakeAt = NULL
    /\ outSweeps' = [outSweeps EXCEPT ![k] = IdleSweep]
    /\ ret' = [op |-> IF ok THEN "markOutboundCompleted" ELSE "markOutboundRetry",
               id |-> Head(outSweeps[k].batch).id, store |-> "closed"]
    /\ UNCHANGED <<now, inbound, outbound, sent, seq, proc, inboundProcessing,
                   inSweep, webhook, events>>

NextStop ==
    \/ InboundSteps({"m1"})
    \/ OutboundSteps({Hi}, {"c1"}, {1})
    \/ Wait
    \/ Abort
    \/ \E ok \in BOOLEAN : InboundDispatchDoneClosed(ok)
    \/ \E ok \in BOOLEAN : OutboundSendDoneClosed(1, ok)

SpecStop == Init /\ [][NextStop]_vars

---------------------------------------------------------------------------
(* Claims                                                                  *)

Terminal == {"completed", "failed_permanent"}

RowIds == 1..MaxRows

C2_EnqueueInboundIdempotent ==
    /\ \A m \in MessageIds :
          (\E r \in inbound : r.message_id = m) =>
              LET e == enqueueInbound(inbound, seq.inbound, m, now)
              IN  /\ e.rows = inbound
                  /\ e.result.enqueued = FALSE
                  /\ e.result.reason = "duplicate"
    /\ \A r1, r2 \in inbound : r1.message_id = r2.message_id => r1 = r2
    /\ (ret.op = "enqueueInbound" /\ ~ret.result.enqueued) =>
          ret.result.reason = "duplicate"

C2_Witness ==
    /\ ret.op = "enqueueInbound"
    /\ ~ret.result.enqueued
    /\ ret.result.reason = "duplicate"
    /\ ret.result.existing = "completed"
    /\ Cardinality(inbound) = 1

\* C3: no message event is acknowledged to the chat platform before its row
\* is in the inbound store.
C3_EnqueueBeforeAck ==
    \A m \in MessageIds :
        webhook[m] = "acked" => \E r \in inbound : r.message_id = m

\* C4: opening the store sets every processing row, inbound and outbound, to
\* pending with retries unchanged, however long it had been processing; right
\* after open no row is processing.
C4_RestartRecovery ==
    /\ \A rows \in {inbound, outbound} :
          LET opened == constructor(rows, now)
          IN  /\ \A r \in opened : r.status # "processing"
              /\ \A r \in rows :
                    r.status = "processing" =>
                        \E o \in opened : /\ o.id = r.id
                                          /\ o.status = "pending"
                                          /\ o.retries = r.retries
    /\ ret.op = "open" =>
          \A r \in inbound \cup outbound : r.status # "processing"

C4_Witness ==
    /\ ret.op = "open"
    /\ ret.reset > 0
    /\ \E r \in inbound \cup outbound :
          r.status = "pending" /\ r.retries = 0 /\ r.updated_at = now

Deleted(old, new) == {r \in old : \A n \in new : n.id # r.id}

\* C6: a row that leaves a queue table was completed and older than the TTL;
\* pending, processing and failed_permanent rows are never deleted.
C6_OnlyCleanupDeletes ==
    [][\A r \in Deleted(inbound, inbound') \cup Deleted(outbound, outbound') :
          r.status = "completed" /\ r.created_at < now - MESSAGE_TTL_S]_vars

C6_Witness ==
    /\ ret.op = "cleanup"
    /\ ret.deleted > 0
    /\ \E r \in inbound \cup outbound :
          r.status = "failed_permanent" /\ r.created_at < now - MESSAGE_TTL_S

\* a pending or processing row for (content, chatId) created within the window
Unresolved(content, chatId) ==
    \E r \in outbound : /\ r.content_hash = hashContent(content)
                        /\ r.chat_id = chatId
                        /\ r.status \in {"pending", "processing"}
                        /\ now - r.created_at < Secs(DEDUP_WINDOW_MS)

\* a row for (content, chatId) marked completed within the window
Delivered(content, chatId) ==
    \E r \in outbound : /\ r.content = content
                        /\ r.chat_id = chatId
                        /\ r.status = "completed"
                        /\ now - r.completed_at < Secs(DEDUP_WINDOW_MS)

\* C7: while a pending or processing row with the same content and chat,
\* created within the dedup window, exists, enqueueOutbound stores nothing and
\* returns duplicate_pending; a call right after an accepted one is rejected.
C7_DuplicatePending ==
    /\ \A c \in Contents, ch \in ChatIds :
          Unresolved(c, ch) =>
              LET e == enqueueOutbound(outbound, sent, seq.outbound, ch, c, now)
              IN  /\ e.rows = outbound
                  /\ e.result = [enqueued |-> FALSE, reason |-> "duplicate_pending"]
    /\ (ret.op = "enqueueOutbound" /\ ret.result.enqueued) =>
          LET e == enqueueOutbound(outbound, sent, seq.outbound, ret.chatId,
                                   ret.content, now)
          IN  e.rows = outbound /\ e.result.reason = "duplicate_pending"

C7_Witness ==
    /\ ret.op = "enqueueOutbound"
    /\ ~ret.result.enqueued
    /\ ret.result.reason = "duplicate_pending"
    /\ \E r \in outbound : r.chat_id = ret.chatId /\ r.status = "processing"

\* C8 as stated: after a row for (content, chatId) was marked completed,
\* enqueueOutbound within the window stores nothing and returns already_sent.
C8_AlreadySent ==
    \A c \in Contents, ch \in ChatIds :
        Delivered(c, ch) =>
            LET e == enqueueOutbound(outbound, sent, seq.outbound, ch, c, now)
            IN  /\ e.rows = outbound
                /\ e.result = [enqueued |-> FALSE, reason |-> "already_sent"]

\* C8: after a row for (content, chatId) was marked completed, enqueueOutbound
\* within the window stores nothing and returns enqueued=false; the reason is
\* already_sent unless a pending or processing row with the same content and
\* chat created within the window exists, and then it is duplicate_pending.
C8_AlreadySentUnlessUnresolved ==
    \A c \in Contents, ch \in ChatIds :
        Delivered(c, ch) =>
            LET e == enqueueOutbound(outbound, sent, seq.outbound, ch, c, now)
            IN  /\ e.rows = outbound
                /\ e.result.enqueued = FALSE
                /\ e.result.reason = IF Unresolved(c, ch) THEN "duplicate_pending"
                                     ELSE "already_sent"

C8_Witness ==
    /\ ret.op = "enqueueOutbound"
    /\ ~ret.result.enqueued
    /\ ret.result.reason = "already_sent"
    /\ Delivered(ret.content, ret.chatId)

\* C9: the outcome of enqueueOutbound(content, chatId) is the outcome on the
\* rows and sent records of that chat alone, and when that chat has no row and
\* no sent record with the content the call stores a new pending row.
C9_DedupPerChat ==
    \A c \in Contents, ch \in ChatIds :
        LET e == enqueueOutbound(outbound, sent, seq.outbound, ch, c, now)
            own == enqueueOutbound({r \in outbound : r.chat_id = ch},
                                   {x \in sent : x.chat_id = ch},
                                   seq.outbound, ch, c, now)
        IN  /\ e.result = own.result
            /\ (/\ \A r \in outbound : ~(r.chat_id = ch /\ r.content = c)
                /\ \A x \in sent : ~(x.chat_id = ch /\ x.content_hash = hashContent(c)))
               => /\ e.result.enqueued
                  /\ \E r \in e.rows \ outbound :
                        r.chat_id = ch /\ r.content = c /\ r.status = "pending"

C9_Witness ==
    /\ ret.op = "enqueueOutbound"
    /\ ret.result.enqueued
    /\ \E r \in outbound : /\ r.chat_id # ret.chatId
                           /\ r.content = ret.content
                           /\ r.status \in {"pending", "processing"}
                           /\ now - r.created_at < Secs(DEDUP_WINDOW_MS)

\* C10: a completed or failed_permanent row keeps its status, retries and
\* stored result in every step; it can only disappear, and only if completed.
C10_TerminalImmutable ==
    [][/\ \A r \in inbound :
             r.status \in Terminal =>
                 \/ \E n \in inbound' : /\ n.id = r.id
                                        /\ n.status = r.status
                                        /\ n.retries = r.retries
                                        /\ n.response_text = r.response_text
                 \/ r.status = "completed" /\ \A n \in inbound' : n.id # r.id
       /\ \A r \in outbound :
             r.status \in Terminal =>
                 \/ \E n \in outbound' : /\ n.id = r.id
                                         /\ n.status = r.status
                                         /\ n.retries = r.retries
                                         /\ n.lark_message_id = r.lark_message_id
                 \/ r.status = "completed" /\ \A n \in outbound' : n.id # r.id]_vars

\* the limits dequeue is called with
Limits == {1, INBOUND_BATCH, OUTBOUND_BATCH}

\* the rows a dequeue result holds
Returned(s) == {s[i] : i \in DOMAIN s}

\* r is pending and its retry time, if any, has come at time t
Due(r, t) == r.status = "pending" /\ (r.next_retry_at = NULL \/ r.next_retry_at <= t)

\* every row dequeue returns is a stored row that is pending and due
OnlyDueReturned ==
    \A limit \in Limits :
        /\ \A s \in dequeueInbound(inbound, now, limit) :
              \A r \in Returned(s) : r \in inbound /\ Due(r, now)
        /\ \A s \in dequeueOutbound(outbound, now, limit) :
              \A r \in Returned(s) : r \in outbound /\ Due(r, now)

\* C11 as stated: dequeue returns only pending rows that are due, and the row
\* an enqueue has just stored is returned by the next dequeue.
C11_DequeueEligibility ==
    /\ OnlyDueReturned
    /\ (ret.op = "enqueueInbound" /\ ret.result.enqueued) =>
          \A limit \in Limits : \A s \in dequeueInbound(inbound, now, limit) :
              \E r \in Returned(s) : r.id = ret.result.id
    /\ (ret.op = "enqueueOutbound" /\ ret.result.enqueued) =>
          \A limit \in Limits : \A s \in dequeueOutbound(outbound, now, limit) :
              \E r \in Returned(s) : r.id = ret.result.id

\* C11: dequeue returns only pending rows that are due, and the row an enqueue
\* has just stored is returned by the next dequeue whose limit is not smaller
\* than the number of due rows.
C11_DequeueEligibilityWithinLimit ==
    /\ OnlyDueReturned
    /\ (ret.op = "enqueueInbound" /\ ret.result.enqueued) =>
          \A limit \in Limits :
              Cardinality({r \in inbound : Due(r, now)}) <= limit =>
                  \A s \in dequeueInbound(inbound, now, limit) :
                      \E r \in Returned(s) : r.id = ret.result.id
    /\ (ret.op = "enqueueOutbound" /\ ret.result.enqueued) =>
          \A limit \in Limits :
              Cardinality({r \in outbound : Due(r, now)}) <= limit =>
                  \A s \in dequeueOutbound(outbound, now, limit) :
                      \E r \in Returned(s) : r.id = ret.result.id

C11_Witness ==
    /\ ret.op = "enqueueOutbound"
    /\ ret.result.enqueued
    /\ Cardinality({r \in outbound : Due(r, now)}) = 2
    /\ \E r \in inbound : r.status = "processing"

\* C12: dequeue(limit) returns at most limit rows, in ascending created_at
\* order, and no eligible row it leaves out was created before a returned one.
C12_DequeueOrderAndBound ==
    \A rows \in {inbound, outbound} : \A limit \in Limits :
        \A s \in stmtDequeue(rows, now, limit) :
            /\ Len(s) <= limit
            /\ \A i, j \in 1..Len(s) : i < j => s[i].created_at <= s[j].created_at
            /\ \A r \in rows :
                  (Due(r, now) /\ r \notin Returned(s)) =>
                      \A x \in Returned(s) : x.created_at <= r.created_at

C12_Witness ==
    \E k \in 1..MaxOutSweeps :
        LET batch == outSweeps[k].batch
        IN  /\ Len(batch) = 2
            /\ batch[1].created_at < batch[2].created_at

\* row a of table rows, just put back by markRetry at time t: it is pending,
\* due at t + backoff(retries), which is later than t, and no dequeue before
\* that time returns it
RetryScheduled(rows, a, t) ==
    /\ a.status = "pending"
    /\ a.next_retry_at = t + Secs(calculateBackoff(a.retries))
    /\ a.next_retry_at > t
    /\ \A limit \in Limits : \A at \in {t, a.next_retry_at - 1} :
          \A s \in stmtDequeue(rows, at, limit) : a \notin Returned(s)

\* every dequeue at or after the retry time returns row a; with withinLimit,
\* every dequeue whose limit is not smaller than the number of due rows
RetryDue(rows, a, withinLimit) ==
    \A limit \in Limits : \A at \in {a.next_retry_at} :
        (withinLimit => Cardinality({r \in rows : Due(r, at)}) <= limit) =>
            \A s \in stmtDequeue(rows, at, limit) : a \in Returned(s)

\* markRetry applied now to each row being processed that has retries left
RetryGating(withinLimit) ==
    /\ \A r \in inbound :
          (r.status = "processing" /\ r.retries + 1 < MAX_RETRIES) =>
              \A after \in {markInboundRetry(inbound, r.id, "error", now)} :
                  \A a \in {Row(after, r.id)} :
                      RetryScheduled(after, a, now) /\ RetryDue(after, a, withinLimit)
    /\ \A r \in outbound :
          (r.status = "processing" /\ r.retries + 1 < MAX_RETRIES) =>
              \A after \in {markOutboundRetry(outbound, r.id, "error", now)} :
                  \A a \in {Row(after, r.id)} :
                      RetryScheduled(after, a, now) /\ RetryDue(after, a, withinLimit)

\* C13 as stated: after markRetry with retries left the row is pending with
\* next_retry_at = now + backoff(retries) in the future, no dequeue before
\* that time returns it and every dequeue at or after that time returns it.
C13_BackoffGating == RetryGating(FALSE)

\* C13: after markRetry with retries left the row is pending with
\* next_retry_at = now + backoff(retries) in the future, no dequeue before
\* that time returns it, and every dequeue at or after that time whose limit
\* is not smaller than the number of due rows returns it.
C13_BackoffGatingWithinLimit == RetryGating(TRUE)

C13_Witness ==
    /\ \E r \in outbound : /\ r.status = "pending" /\ r.retries = 1
                           /\ r.updated_at = now
                           /\ r.next_retry_at = now + Secs(calculateBackoff(1))
    /\ Cardinality(outbound) = 2

\* C14: once the periodic timer of the queue has run, no row is left in status
\* processing that has been processing for longer than the stuck threshold.
C14_StuckReclaimedBySweep ==
    ret.op = "cleanup" =>
        \A r \in inbound \cup outbound :
            ~(r.status = "processing" /\ r.updated_at < now - Secs(STUCK_THRESHOLD_MS))

\* C18: when the transport-level loop has used up all SEND_MAX_RETRIES
\* attempts for an outbound row the row is failed_permanent and still stored,
\* and so is every row whose queue-level retries have reached MAX_RETRIES.
C18_ExhaustionTerminal ==
    /\ (ret.op = "sendToLarkWithRetry" /\ ret.attempts = SEND_MAX_RETRIES) =>
          /\ HasRow(outbound, ret.id)
          /\ Row(outbound, ret.id).status = "failed_permanent"
    /\ \A r \in inbound \cup outbound :
          r.retries >= MAX_RETRIES => r.status = "failed_permanent"

\* the retry counts of the stored rows and the attempt numbers of the sends
\* in progress
Reached ==
    ({r.retries : r \in inbound \cup outbound}
        \cup {outSweeps[k].attempt : k \in DOMAIN outSweeps}) \ {0}

\* C15: for every n that a row or a send reaches, the backoff of the queue and
\* the backoff of the transport-level loop do not exceed 7,200,000 ms and are
\* at least the backoff of every smaller n >= 1.
C15_BackoffMonotoneBounded ==
    \A n \in Reached :
        /\ calculateBackoff(n) <= RETRY_BACKOFF_MAX_MS
        /\ calculateSendBackoff(n) <= RETRY_BACKOFF_MAX_MS
        /\ \A m \in 1..n :
              /\ calculateBackoff(m) <= calculateBackoff(n)
              /\ calculateSendBackoff(m) <= calculateSendBackoff(n)

\* a send has just used up its attempts, the last sleeps at the ceiling, and
\* the row is rescheduled with a queue backoff at the ceiling
C15_Witness ==
    /\ ret.op = "sendToLarkWithRetry"
    /\ ret.attempts = SEND_MAX_RETRIES
    /\ \E r \in outbound :
          /\ r.id = ret.id
          /\ r.status = "pending"
          /\ r.next_retry_at = r.updated_at + Secs(RETRY_BACKOFF_MAX_MS)
          /\ r.next_retry_at = now + Secs(calculateBackoff(r.retries))

\* C16: when markRetry brings a row to retry count n, 1 <= n < MAX_RETRIES,
\* the row is due min(1000 * 2^min(n-1, 17), 7,200,000) ms after the call
\* (1 s for the first retry), the delay of the transport-level loop for its
\* attempt n.
C16_QueueBackoffFormula ==
    \A q \in {[op |-> "markInboundRetry", rows |-> inbound],
              [op |-> "markOutboundRetry", rows |-> outbound]} :
        (ret.op = q.op /\ HasRow(q.rows, ret.id)) =>
            LET r == Row(q.rows, ret.id)
                n == r.retries
            IN  n \in 1..(MAX_RETRIES - 1) =>
                    /\ r.next_retry_at - ret.at =
                          Secs(Min2(1000 * 2 ^ Min2(n - 1, 17), 7200000))
                    /\ r.next_retry_at - ret.at = Secs(calculateSendBackoff(n))

\* C17: when a dispatch has ended and one of the replies it delivered ended in
\* a send failure, the inbound row is not completed, and the failure is in the
\* store: the inbound row was sent to retry or an outbound row was stored
\* during the dispatch.
C17_NoReplySilentlyLost ==
    (ret.op = "dispatch" /\ ret.reply = "error") =>
        /\ Row(inbound, ret.id).status # "completed"
        /\ \/ /\ Row(inbound, ret.id).status \in {"pending", "failed_permanent"}
              /\ Row(inbound, ret.id).last_error # NoText
           \/ \E o \in outbound : o.created_at >= ret.since

\* the rows of new that a completion wrote in the step from old to new
Done(old, new) ==
    {r \in new : r.status = "completed" /\ \E o \in old : o.id = r.id /\ o # r}

\* the SentRecords of new that old does not hold
Appended(old, new) == {s \in new : \A t \in old : t.id # s.id}

\* C19: a step that completes an outbound row leaves the row completed with
\* completed_at set to the time of the call and the delivered message id
\* stored, and appends exactly one SentRecord with the row's content hash,
\* chat and message id; no step appends a SentRecord otherwise, so completing
\* an inbound row appends none.
C19_CompletionAppendsOneRecord ==
    [][LET done == Done(outbound, outbound')
           fresh == Appended(sent, sent')
       IN  /\ \A r \in done :
                 /\ r.completed_at = now
                 /\ r.lark_message_id \in LarkIds
                 /\ Cardinality({s \in fresh :
                        /\ s.content_hash = r.content_hash
                        /\ s.chat_id = r.chat_id
                        /\ s.lark_message_id = r.lark_message_id
                        /\ s.created_at = now}) = 1
           /\ Cardinality(fresh) = Cardinality(done)
           /\ Done(inbound, inbound') # {} => fresh = {}]_vars

\* a reply and an inbound message have both been completed, and the ledger
\* holds the one record of the reply
C19_Witness ==
    /\ \E r \in outbound, s \in sent :
          /\ r.status = "completed"
          /\ r.completed_at = s.created_at
          /\ r.lark_message_id = s.lark_message_id
          /\ s.content_hash = r.content_hash
          /\ Cardinality(sent) = 1
    /\ \E m \in inbound : m.status = "completed" /\ m.response_text = "delivered"

\* C20: in every step a stored row keeps its retries, unless the step is a
\* markRetry on that row, which leaves it with retries one higher; a row that
\* is new in a step has retries 0.
C20_RetriesOnlyByMarkRetry ==
    [][/\ \A r \in inbound, n \in inbound' :
             n.id = r.id /\ n.retries # r.retries =>
                 /\ n.retries = r.retries + 1
                 /\ n = Row(markInboundRetry(inbound, r.id, n.last_error, now), r.id)
       /\ \A r \in outbound, n \in outbound' :
             n.id = r.id /\ n.retries # r.retries =>
                 /\ n.retries = r.retries + 1
                 /\ n = Row(markOutboundRetry(outbound, r.id, n.last_error, now), r.id)
       /\ \A n \in Deleted(inbound', inbound) \cup Deleted(outbound', outbound) :
             n.retries = 0]_vars

\* a row that failed once was being processed again when the process died,
\* and the restart has put it back with its one retry
C20_Witness ==
    /\ ret.op = "open"
    /\ ret.reset > 0
    /\ \E r \in inbound :
          r.status = "pending" /\ r.retries = 1 /\ r.updated_at = now

Expired(r, t) == r.created_at < t - MESSAGE_TTL_S

\* C22: a row that leaves a queue table is completed and older than the TTL, a
\* SentRecord that leaves the ledger is older than the TTL, and when cleanup
\* has run (on the timer or at startup) no completed row and no SentRecord
\* older than the TTL is left.
C22_CleanupExactlyExpired ==
    [][/\ \A r \in Deleted(inbound, inbound') \cup Deleted(outbound, outbound') :
             r.status = "completed" /\ Expired(r, now')
       /\ \A s \in Deleted(sent, sent') : Expired(s, now')
       /\ ret'.op \in {"cleanup", "open"} =>
             /\ \A r \in inbound' \cup outbound' :
                   ~(r.status = "completed" /\ Expired(r, now'))
             /\ \A s \in sent' : ~Expired(s, now')]_vars

\* the timer has deleted an expired completed row and has kept a completed row
\* that is not older than the TTL
C22_Witness ==
    /\ ret.op = "cleanup"
    /\ ret.deleted > 0
    /\ \E r \in inbound \cup outbound : r.status = "completed" /\ ~Expired(r, now)

\* the rows of a queue inside the TTL window at time t
InWindow(rows, t) == {r \in rows : r.created_at > t - MESSAGE_TTL_S}

\* counts is the number of rows of each status among the rows inside the window
CountsOf(counts, rows, t) ==
    /\ counts.pending = Cardinality({r \in InWindow(rows, t) : r.status = "pending"})
    /\ counts.processing = Cardinality({r \in InWindow(rows, t) : r.status = "processing"})
    /\ counts.completed = Cardinality({r \in InWindow(rows, t) : r.status = "completed"})
    /\ counts.failed = Cardinality({r \in InWindow(rows, t) : r.status = "failed_permanent"})
    /\ counts.pending + counts.processing + counts.completed + counts.failed
          = Cardinality(InWindow(rows, t))

\* C23: a getStats call changes no row and no SentRecord, and what it returns
\* is, for each queue, the number of rows in each of the four statuses among
\* the rows inside the TTL window, the four adding up to the number of those
\* rows, together with the store file path.
C23_StatsCounts ==
    [][ret'.op = "getStats" =>
          /\ inbound' = inbound /\ outbound' = outbound /\ sent' = sent
          /\ CountsOf(ret'.stats.inbound, inbound', now')
          /\ CountsOf(ret'.stats.outbound, outbound', now')
          /\ ret'.stats.dbPath = dbPath]_vars

\* stats taken when the inbound queue holds a failed row and the outbound
\* queue a pending row, both inside the window
C23_Witness ==
    /\ ret.op = "getStats"
    /\ ret.stats.inbound.failed = 1
    /\ ret.stats.outbound.pending = 1

\* the text is absent, empty or one of the skip sentinels
SkipText(text) ==
    text.length = 0 \/ text.text \in {"NO_REPLY", "HEARTBEAT_OK"}

C25_InboundSingleFlight ==
    [][/\ proc = "running" =>
             /\ inboundProcessing <=> inSweep # <<>>
             /\ \A r \in inbound :
                   r.status = "processing" =>
                       inSweep # <<>> /\ r.id = Head(inSweep).id
       /\ inSweep # <<>> =>
             \/ inSweep' = inSweep
             \/ inSweep' = Tail(inSweep)
             \/ proc' = "crashed" /\ inSweep' = <<>>]_vars

\* a message is enqueued, which signals the consumer, while a sweep is awaiting
\* the backend: the new row is due, and the sweep goes on alone
C25_Witness ==
    /\ ret.op = "enqueueInbound"
    /\ ret.result.enqueued
    /\ inboundProcessing
    /\ inSweep # <<>>
    /\ \E r \in inbound : r.id = ret.result.id /\ Due(r, now)
    /\ \E r \in inbound : r.id = Head(inSweep).id /\ r.status = "processing"

\* the ids of the rows sweep k has dequeued and not yet finished
InFlight(k) == {outSweeps[k].batch[i].id : i \in DOMAIN outSweeps[k].batch}

\* C26: an outbound row is in the hands of one sweep at a time: no row is in the
\* unfinished batch of two sweeps, so no second sweep marks it processing or
\* sends it while the first is still running.
C26_OneSweepPerRow ==
    \A k, j \in DOMAIN outSweeps : k # j => InFlight(k) \cap InFlight(j) = {}

\* C27: when the attempt on the row at the head of the inbound batch ends, the
\* row is completed with the delivery marker if the backend call returned, and
\* has gone through markRetry with the error text (one more retry, pending or
\* failed_permanent) if the call raised or timed out; it is not left processing.
C27_InboundOutcome ==
    [][(inSweep # <<>> /\ inSweep' # inSweep /\ proc' = "running") =>
          \E r \in inbound, n \in inbound' :
              /\ r.id = Head(inSweep).id
              /\ n.id = r.id
              /\ events' = events =>
                    /\ n.status = "completed"
                    /\ n.response_text = "delivered"
                    /\ n.completed_at = now
                    /\ n.retries = r.retries
              /\ events' # events =>
                    /\ n.status \in {"pending", "failed_permanent"}
                    /\ n.retries = r.retries + 1
                    /\ n.last_error = "error"
                    /\ n.status = "pending" <=> n.next_retry_at > now]_vars

\* both outcomes have happened: one row was completed, another is waiting for
\* its retry with the error recorded
C27_Witness ==
    /\ \E r \in inbound : r.status = "completed" /\ r.response_text = "delivered"
    /\ \E r \in inbound : /\ r.status = "pending" /\ r.retries = 1
                          /\ r.last_error = "error" /\ r.next_retry_at > now
    /\ inSweep = <<>>

C29_FailureIsolation ==
    [][/\ (inSweep # <<>> /\ inSweep' # inSweep /\ events' # events) =>
            /\ Row(inbound', Head(inSweep).id).retries =
                  Row(inbound, Head(inSweep).id).retries + 1
            /\ inSweep' = Tail(inSweep)
            /\ inSweep' # <<>> =>
                  Row(inbound', Head(inSweep').id).status = "processing"
            /\ inSweep' = <<>> => ~inboundProcessing'
       /\ \A k \in 1..MaxOutSweeps :
            (ret'.op = "sendToLarkWithRetry" /\ outSweeps'[k] # outSweeps[k]) =>
               /\ Row(outbound', Head(outSweeps[k].batch).id).retries =
                     Row(outbound, Head(outSweeps[k].batch).id).retries + 1
               /\ outSweeps'[k].batch = Tail(outSweeps[k].batch)
               /\ outSweeps'[k].batch # <<>> =>
                     /\ Row(outbound', Head(outSweeps'[k].batch).id).status = "processing"
                     /\ outSweeps'[k].attempt = 1
                     /\ outSweeps'[k].wakeAt = NULL]_vars

\* in both queues the head of a batch has failed and the row behind it is
\* being attempted
C29_Witness ==
    /\ inSweep # <<>>
    /\ \E r \in inbound :
          /\ r.id < Head(inSweep).id
          /\ r.retries > 0
          /\ r.status # "processing"
          /\ r.updated_at = Row(inbound, Head(inSweep).id).updated_at
    /\ ret.op = "sendToLarkWithRetry"
    /\ outSweeps[1].batch # <<>>
    /\ ret.id < Head(outSweeps[1].batch).id
    /\ Row(outbound, Head(outSweeps[1].batch).id).status = "processing"

\* C30: the transport-level send loop makes at most SEND_MAX_RETRIES calls for
\* one queue attempt.  When a call returns, either it succeeded and the row is
\* completed with the delivered message id with no further call, or it failed
\* before the last attempt and the loop sleeps calculateSendBackoff(attempt)
\* before the next call, or it failed on the last attempt and the loop returns
\* the error without a sleep.  A sleep is followed by exactly one more call.
C30_SendLoopBounded ==
    [][\A k \in 1..MaxOutSweeps :
         LET sw == outSweeps[k]
             sw2 == outSweeps'[k]
         IN  /\ sw2.batch # <<>> => sw2.attempt \in 1..SEND_MAX_RETRIES
             /\ (sw.batch # <<>> /\ sw.wakeAt = NULL /\ sw2 # sw) =>
                  \/ /\ Row(outbound', Head(sw.batch).id).status = "completed"
                     /\ Row(outbound', Head(sw.batch).id).lark_message_id \in LarkIds
                     /\ sw2.batch = Tail(sw.batch)
                     /\ ret'.op # "sendToLarkWithRetry"
                  \/ /\ sw.attempt < SEND_MAX_RETRIES
                     /\ sw2 = [sw EXCEPT !.wakeAt =
                                  now + Secs(calculateSendBackoff(sw.attempt)),
                                          !.lastError = "error"]
                     /\ sw2.wakeAt > now
                     /\ outbound' = outbound
                  \/ /\ sw.attempt = SEND_MAX_RETRIES
                     /\ ret' = [op |-> "sendToLarkWithRetry", id |-> Head(sw.batch).id,
                                attempts |-> SEND_MAX_RETRIES, error |-> "error"]
                     /\ Row(outbound', Head(sw.batch).id).last_error = "error"
                     /\ Row(outbound', Head(sw.batch).id).status # "processing"
                     /\ sw2.batch = Tail(sw.batch)
                     /\ sw2.wakeAt = NULL
             /\ (sw.batch # <<>> /\ sw.wakeAt # NULL /\ sw2 # sw) =>
                  /\ sw.wakeAt <= now
                  /\ sw2 = [sw EXCEPT !.attempt = sw.attempt + 1, !.wakeAt = NULL]]_vars

\* the time the loop sleeps after the failed calls number lo to hi
RECURSIVE SleptBetween(_, _)
SleptBetween(lo, hi) ==
    IF lo > hi THEN 0
    ELSE IF lo = hi THEN Secs(calculateSendBackoff(lo))
    ELSE SleptBetween(lo, (lo + hi) \div 2) + SleptBetween((lo + hi) \div 2 + 1, hi)

\* a reply was delivered by the last call the loop may make: all calls but
\* the last failed, every sleep was taken, and the sweep is over
C30_Witness ==
    /\ outSweeps[1] = IdleSweep
    /\ \E r \in outbound :
          /\ r.status = "completed"
          /\ r.lark_message_id \in LarkIds
          /\ r.retries = 0
          /\ r.completed_at >= r.created_at + SleptBetween(1, SEND_MAX_RETRIES - 1)

C32_SkipIsSuccess ==
    [][/\ \A k \in 1..MaxOutSweeps :
            outSweeps'[k].batch # <<>> => ~SkipText(Head(outSweeps'[k].batch).content)
       /\ \A r \in outbound, n \in outbound' :
            (SkipText(r.content) /\ n.id = r.id) =>
               /\ n.retries = r.retries
               /\ n.lark_message_id = NoText
               /\ n.last_error = r.last_error
               /\ n.status # r.status =>
                     /\ r.status = "pending"
                     /\ n.status = "completed"
                     /\ n.completed_at = now]_vars

\* a skip marker has been completed with nothing sent in a run where the
\* transport failed for a reply
C32_Witness ==
    /\ \E r \in outbound :
          /\ SkipText(r.content)
          /\ r.status = "completed"
          /\ r.lark_message_id = NoText
          /\ r.retries = 0
    /\ \E r \in outbound :
          /\ ~SkipText(r.content)
          /\ r.retries > 0
          /\ r.created_at = StartTime

\* the rows and the SentRecords with this content for this chat
Matching(set, content, chatId) ==
    {r \in set : r.content_hash = hashContent(content) /\ r.chat_id = chatId}

\* C33: both checks of enqueueOutbound look only at the last DEDUP_WINDOW: a
\* content is refused exactly when a pending or processing row, or a
\* SentRecord, with the same content and chat was created inside the window;
\* once every matching row and SentRecord is older than the window the content
\* is stored again as a new row, although the SentRecord is still in the
\* ledger.
C33_DedupWindowBounded ==
    [][ret'.op = "enqueueOutbound" =>
         LET cutoff == now - Secs(DEDUP_WINDOW_MS)
             rows == Matching(outbound, ret'.content, ret'.chatId)
             records == Matching(sent, ret'.content, ret'.chatId)
             recent == {r \in rows : r.created_at > cutoff
                                     /\ r.status \in {"pending", "processing"}}
                         \cup {s \in records : s.created_at > cutoff}
         IN  /\ ret'.result.enqueued <=> recent = {}
             /\ (\A r \in rows \cup records : r.created_at <= cutoff) =>
                   /\ ret'.result.enqueued
                   /\ Cardinality(outbound') = Cardinality(outbound) + 1
                   /\ sent' = sent]_vars

\* a content was stored again while the SentRecord of its earlier delivery to
\* the same chat, older than the window, is still in the ledger
C33_Witness ==
    /\ ret.op = "enqueueOutbound"
    /\ ret.result.enqueued
    /\ \E s \in Matching(sent, ret.content, ret.chatId) :
          /\ s.created_at <= now - Secs(DEDUP_WINDOW_MS)
          /\ s.created_at > now - MESSAGE_TTL_S
    /\ Cardinality(Matching(outbound, ret.content, ret.chatId)) = 2

\* C34: in every state every row has 0 <= retries <= MAX_RETRIES, a row is
\* failed_permanent only with retries = MAX_RETRIES, and a row with retries =
\* MAX_RETRIES is neither pending nor processing.
C34_RetryBounds ==
    /\ \A r \in inbound :
          /\ r.retries \in 0..MAX_RETRIES
          /\ r.status = "failed_permanent" => r.retries = MAX_RETRIES
          /\ r.retries = MAX_RETRIES => r.status \notin {"pending", "processing"}
    /\ \A r \in outbound :
          /\ r.retries \in 0..MAX_RETRIES
          /\ r.status = "failed_permanent" => r.retries = MAX_RETRIES
          /\ r.retries = MAX_RETRIES => r.status \notin {"pending", "processing"}

\* the inbound rows in processing
Processing(rows) == {r \in rows : r.status = "processing"}

\* C35: at every moment at most one inbound row is in processing, and a row
\* is marked processing only when the attempt on the row marked before it is
\* over: in the step that marks it, that row has been completed or has gone
\* through markInboundRetry.
C35_OneInboundProcessing ==
    [][/\ Cardinality(Processing(inbound)) <= 1
       /\ Cardinality(Processing(inbound')) <= 1
       /\ \A n \in Processing(inbound') :
             (\A r \in Processing(inbound) : r.id # n.id) =>
                /\ proc = "running"
                /\ inSweep' # <<>> /\ Head(inSweep').id = n.id
                /\ \A r \in Processing(inbound) :
                      \E d \in inbound' :
                         /\ d.id = r.id
                         /\ \/ d.status = "completed"
                            \/ d.retries = r.retries + 1]_vars

\* the first row of a batch of two has been completed and the second, marked
\* in the same step, is the only row in processing
C35_Witness ==
    /\ Len(inSweep) = 1
    /\ Processing(inbound) = {Row(inbound, Head(inSweep).id)}
    /\ \E d \in inbound :
          /\ d.id < Head(inSweep).id
          /\ d.status = "completed"
          /\ d.completed_at = Row(inbound, Head(inSweep).id).updated_at

\* C36: the re-entrancy flag of the inbound consumer is set exactly while a
\* sweep is executing: it is clear after a sweep has ended, by return or by an
\* exception of a queue operation outside the per-item try, so a sweep that
\* is over blocks no trigger and every pending inbound row is picked up in the
\* end.
C36_FlagClearedWhenSweepEnds ==
    /\ [](inboundProcessing <=> inSweep # <<>>)
    /\ \A i \in RowIds :
          (\E r \in inbound : r.id = i /\ r.status = "pending")
             ~> (\E r \in inbound : r.id = i /\ r.status # "pending")

\* a sweep has ended with an exception, leaving a due row of its batch
\* pending, and the flag is clear
C36_Witness ==
    /\ ret.op = "processInboundQueue"
    /\ ret.threw
    /\ ~inboundProcessing
    /\ \E r \in inbound : r.id = Head(ret.left).id /\ Due(r, now)

\* the operations of the queue the consumers call
ConsumerQueueOps ==
    {"dequeueInbound", "markInboundProcessing", "markInboundCompleted",
     "markInboundRetry", "dequeueOutbound", "markOutboundProcessing",
     "markOutboundCompleted", "markOutboundRetry"}

\* C37: once the abort handler has stopped the consumers and closed the
\* queue, no sweep and no trigger calls an operation of the queue.
C37_CleanShutdown ==
    proc = "stopped" => ret.op \notin ConsumerQueueOps

\* C38: every submission of one inbound row carries the same key, whatever
\* has happened to the row in between (retries, restarts): the key of the row
\* in flight is the key of the stored row, no step changes the key of a row,
\* and rows with different message ids have different keys.
C38_StableIdempotencyKey ==
    [][/\ inSweep # <<>> =>
            finalizeInboundContext(Head(inSweep)).MessageSid =
               finalizeInboundContext(Row(inbound, Head(inSweep).id)).MessageSid
       /\ \A r \in inbound, n \in inbound' :
            n.id = r.id =>
               finalizeInboundContext(n).MessageSid = finalizeInboundContext(r).MessageSid
       /\ \A r1, r2 \in inbound :
            r1.message_id # r2.message_id =>
               finalizeInboundContext(r1).MessageSid # finalizeInboundContext(r2).MessageSid]_vars

\* a row enqueued in this run is submitted for the second time, after a
\* failed attempt, while the store holds a row of another message
C38_Witness ==
    /\ inSweep # <<>>
    /\ Row(inbound, Head(inSweep).id).status = "processing"
    /\ Row(inbound, Head(inSweep).id).retries = 1
    /\ \E r \in inbound : r.message_id # Head(inSweep).message_id

=============================================================================
